---- MODULE Spec2Model ----
(***************************************************************************)
(* Model of the generic serial protocol: the typed-message codec           *)
(* (src/src/message.rs) and the framing / resynchronisation layer          *)
(* (src/src/serial_manager/mod.rs).                                        *)
(*                                                                         *)
(* A link connects a sending SerialManager to a receiving SerialManager    *)
(* (a UnixStream pair in the tests).  Bytes are naturals in 0..255, a Rust *)
(* String is the sequence of its chars (Unicode scalar values), and a      *)
(* Result is a record whose field k names the variant.                     *)
(***************************************************************************)
EXTENDS Integers, Sequences, FiniteSets, TLC

\* ------------------------------------------------------------------------
\* Protocol constants (serial_manager/mod.rs)
\* ------------------------------------------------------------------------
START_BYTE == 88

ESCAPE_BYTE == 66

XOR_BYTE == 105

\* ------------------------------------------------------------------------
\* Bounds of the model
\* ------------------------------------------------------------------------
\* longest payload of the short Bytes messages
MaxData == 1

\* longest text of the short MyString / Multi messages, in chars
MaxStr == 1

\* the peer stops putting segments on the link once this many bytes are on it
MaxWire == 7

\* number of segments the peer puts on the link
MaxSegs == 3

\* longest cut frame, in bytes
MaxCut == 6

\* number of receive() calls of one behaviour
MaxCalls == 2

\* the transport fails at most at this operation (write or flush) of a send
MaxFault == 10

\* number of frames in a row that a peer begins and abandons
MaxResync == 4

\* ------------------------------------------------------------------------
\* Integer helpers: u8 / u16 arithmetic
\* ------------------------------------------------------------------------
RECURSIVE XorBits(_, _, _)
XorBits(a, b, n) ==
    IF n = 0 THEN 0
    ELSE (((a % 2) + (b % 2)) % 2) + 2 * XorBits(a \div 2, b \div 2, n - 1)

\* u8 ^ u8
XorU8(a, b) == XorBits(a, b, 8)

\* u16::to_le_bytes
ToLeBytes(n) == <<n % 256, (n \div 256) % 256>>

\* u16::from_le_bytes
FromLeBytes(lo, hi) == lo + 256 * hi

\* `as u16` of a usize
AsU16(n) == n % 65536

RECURSIVE Concat(_)
Concat(ss) == IF ss = <<>> THEN <<>> ELSE Head(ss) \o Concat(Tail(ss))

Repeat(b, n) == [i \in 1..n |-> b]

\* all sequences over S of length at most n
SeqsUpTo(S, n) == UNION {[1..k -> S] : k \in 0..n}

\* `let x = v; F(x)`: the value v bound to the name of the LAMBDA
Let(v, F(_)) == F(v)

\* ------------------------------------------------------------------------
\* UTF-8: str::as_bytes and String::from_utf8
\* ------------------------------------------------------------------------
\* the UTF-8 encoding of one char
EncodeChar(c) ==
    IF c < 128 THEN <<c>>
    ELSE IF c < 2048 THEN <<192 + (c \div 64), 128 + (c % 64)>>
    ELSE IF c < 65536 THEN
        <<224 + (c \div 4096), 128 + ((c \div 64) % 64), 128 + (c % 64)>>
    ELSE <<240 + (c \div 262144), 128 + ((c \div 4096) % 64),
           128 + ((c \div 64) % 64), 128 + (c % 64)>>

\* String::as_bytes: the UTF-8 bytes of a string
RECURSIVE AsBytes(_)
AsBytes(s) == IF s = <<>> THEN <<>> ELSE EncodeChar(Head(s)) \o AsBytes(Tail(s))

IsCont(b) == b >= 128 /\ b <= 191

\* number of bytes of the well-formed sequence that starts at d[i], 0 if none
Utf8Width(d, i) ==
    LET b0 == d[i]
        n  == Len(d)
    IN  IF b0 < 128 THEN 1
        ELSE IF b0 >= 194 /\ b0 <= 223 THEN
            IF i + 1 <= n /\ IsCont(d[i + 1]) THEN 2 ELSE 0
        ELSE IF b0 >= 224 /\ b0 <= 239 THEN
            IF /\ i + 2 <= n
               /\ IsCont(d[i + 1])
               /\ IsCont(d[i + 2])
               /\ (b0 = 224 => d[i + 1] >= 160)
               /\ (b0 = 237 => d[i + 1] <= 159)
            THEN 3 ELSE 0
        ELSE IF b0 >= 240 /\ b0 <= 244 THEN
            IF /\ i + 3 <= n
               /\ IsCont(d[i + 1])
               /\ IsCont(d[i + 2])
               /\ IsCont(d[i + 3])
               /\ (b0 = 240 => d[i + 1] >= 144)
               /\ (b0 = 244 => d[i + 1] <= 143)
            THEN 4 ELSE 0
        ELSE 0

\* the char encoded by the w bytes at d[i]
DecodeChar(d, i, w) ==
    IF w = 1 THEN d[i]
    ELSE IF w = 2 THEN (d[i] - 192) * 64 + (d[i + 1] - 128)
    ELSE IF w = 3 THEN
        (d[i] - 224) * 4096 + (d[i + 1] - 128) * 64 + (d[i + 2] - 128)
    ELSE (d[i] - 240) * 262144 + (d[i + 1] - 128) * 4096
         + (d[i + 2] - 128) * 64 + (d[i + 3] - 128)

RECURSIVE Utf8From(_, _)
Utf8From(d, i) ==
    IF i > Len(d) THEN [ok |-> TRUE, chars |-> <<>>]
    ELSE LET w == Utf8Width(d, i)
         IN  IF w = 0 THEN [ok |-> FALSE, chars |-> <<>>]
             ELSE LET rest == Utf8From(d, i + w)
                  IN  IF rest.ok
                      THEN [ok |-> TRUE,
                            chars |-> <<DecodeChar(d, i, w)>> \o rest.chars]
                      ELSE rest

\* String::from_utf8: ok with the chars, or not ok (FromUtf8Error)
FromUtf8(d) == Utf8From(d, 1)

\* ------------------------------------------------------------------------
\* Message (message.rs): the variants and the codec
\* ------------------------------------------------------------------------
Bytes(d) == [variant |-> "Bytes", data |-> d]

U8(n) == [variant |-> "U8", num |-> n]

MyString(s) == [variant |-> "MyString", string |-> s]

Multi(n, s) == [variant |-> "Multi", num |-> n, string |-> s]

NoOp == [variant |-> "NoOp"]

U16(n) == [variant |-> "U16", num |-> n]

Status(st) == [variant |-> "Status", status |-> st]

\* Result<Message, DecodeError> and the panic of an out-of-range index
DecOk(m) == [k |-> "Ok", msg |-> m]

InvalidMessageType(t) == [k |-> "Err", err |-> "InvalidMessageType", arg |-> t]

InvalidUtf8 == [k |-> "Err", err |-> "InvalidUtf8", arg |-> 0]

InvalidEnumValue(b) == [k |-> "Err", err |-> "InvalidEnumValue", arg |-> b]

DecPanic == [k |-> "Panic"]

\* message_type with the tags of NoOp and U16 exchanged
message_type_swapped(m) ==
    CASE m.variant = "Bytes"    -> 0
      [] m.variant = "U8"       -> 1
      [] m.variant = "MyString" -> 2
      [] m.variant = "Multi"    -> 3
      [] m.variant = "NoOp"     -> 5
      [] m.variant = "U16"      -> 4
      [] m.variant = "Status"   -> 6

\* Message::message_type
message_type(m) ==
    CASE m.variant = "Bytes"    -> 0
      [] m.variant = "U8"       -> 1
      [] m.variant = "MyString" -> 2
      [] m.variant = "Multi"    -> 3
      [] m.variant = "NoOp"     -> 4
      [] m.variant = "U16"      -> 5
      [] m.variant = "Status"   -> 6

\* to_bytes with the U16 value written high byte first
to_bytes_be(m) ==
    CASE m.variant = "Bytes"    -> m.data
      [] m.variant = "U8"       -> <<m.num>>
      [] m.variant = "MyString" -> AsBytes(m.string)
      [] m.variant = "Multi"    -> <<m.num>> \o AsBytes(m.string)
      [] m.variant = "NoOp"     -> <<>>
      [] m.variant = "U16"      -> <<(m.num \div 256) % 256, m.num % 256>>
      [] m.variant = "Status"   ->
            <<CASE m.status = "Ok"      -> 0
                [] m.status = "Error"   -> 1
                [] m.status = "Pending" -> 2>>

\* to_bytes that ends the text of a Multi with a zero byte
to_bytes_multi_terminated(m) ==
    CASE m.variant = "Bytes"    -> m.data
      [] m.variant = "U8"       -> <<m.num>>
      [] m.variant = "MyString" -> AsBytes(m.string)
      [] m.variant = "Multi"    -> <<m.num>> \o AsBytes(m.string) \o <<0>>
      [] m.variant = "NoOp"     -> <<>>
      [] m.variant = "U16"      -> ToLeBytes(m.num)
      [] m.variant = "Status"   ->
            <<CASE m.status = "Ok"      -> 0
                [] m.status = "Error"   -> 1
                [] m.status = "Pending" -> 2>>

\* Message::to_bytes
to_bytes(m) ==
    CASE m.variant = "Bytes"    -> m.data
      [] m.variant = "U8"       -> <<m.num>>
      [] m.variant = "MyString" -> AsBytes(m.string)
      [] m.variant = "Multi"    -> <<m.num>> \o AsBytes(m.string)
      [] m.variant = "NoOp"     -> <<>>
      [] m.variant = "U16"      -> ToLeBytes(m.num)
      [] m.variant = "Status"   ->
            <<CASE m.status = "Ok"      -> 0
                [] m.status = "Error"   -> 1
                [] m.status = "Pending" -> 2>>

\* from_bytes that dispatches on the low byte of the tag only
from_bytes_low_byte(mt, data) ==
    LET t == mt % 256
    IN  CASE t = 0 -> DecOk(Bytes(data))
          [] t = 1 -> IF Len(data) < 1 THEN DecPanic ELSE DecOk(U8(data[1]))
          [] t = 2 ->
                LET s == FromUtf8(data)
                IN  IF s.ok THEN DecOk(MyString(s.chars)) ELSE InvalidUtf8
          [] t = 3 ->
                IF Len(data) < 1 THEN DecPanic
                ELSE LET s == FromUtf8(Tail(data))
                     IN  IF s.ok THEN DecOk(Multi(data[1], s.chars))
                         ELSE InvalidUtf8
          [] t = 4 -> DecOk(NoOp)
          [] t = 5 ->
                IF Len(data) < 2 THEN DecPanic
                ELSE DecOk(U16(FromLeBytes(data[1], data[2])))
          [] t = 6 ->
                IF Len(data) < 1 THEN DecPanic
                ELSE CASE data[1] = 0 -> DecOk(Status("Ok"))
                       [] data[1] = 1 -> DecOk(Status("Error"))
                       [] data[1] = 2 -> DecOk(Status("Pending"))
                       [] OTHER       -> InvalidEnumValue(data[1])
          [] OTHER -> InvalidMessageType(mt)

\* from_bytes that converts the text with String::from_utf8_lossy: bytes that
\* are not UTF-8 become U+FFFD instead of an error
from_bytes_lossy(mt, data) ==
    CASE mt = 0 -> DecOk(Bytes(data))
      [] mt = 1 -> IF Len(data) < 1 THEN DecPanic ELSE DecOk(U8(data[1]))
      [] mt = 2 ->
            LET s == FromUtf8(data)
            IN  IF s.ok THEN DecOk(MyString(s.chars))
                ELSE DecOk(MyString(<<65533>>))
      [] mt = 3 ->
            IF Len(data) < 1 THEN DecPanic
            ELSE LET s == FromUtf8(Tail(data))
                 IN  IF s.ok THEN DecOk(Multi(data[1], s.chars))
                     ELSE DecOk(Multi(data[1], <<65533>>))
      [] mt = 4 -> DecOk(NoOp)
      [] mt = 5 ->
            IF Len(data) < 2 THEN DecPanic
            ELSE DecOk(U16(FromLeBytes(data[1], data[2])))
      [] mt = 6 ->
            IF Len(data) < 1 THEN DecPanic
            ELSE CASE data[1] = 0 -> DecOk(Status("Ok"))
                   [] data[1] = 1 -> DecOk(Status("Error"))
                   [] data[1] = 2 -> DecOk(Status("Pending"))
                   [] OTHER       -> InvalidEnumValue(data[1])
      [] OTHER  -> InvalidMessageType(mt)

\* from_bytes that takes every status byte above 1 for Pending
from_bytes_status_lenient(mt, data) ==
    CASE mt = 0 -> DecOk(Bytes(data))
      [] mt = 1 -> IF Len(data) < 1 THEN DecPanic ELSE DecOk(U8(data[1]))
      [] mt = 2 ->
            LET s == FromUtf8(data)
            IN  IF s.ok THEN DecOk(MyString(s.chars)) ELSE InvalidUtf8
      [] mt = 3 ->
            IF Len(data) < 1 THEN DecPanic
            ELSE LET s == FromUtf8(Tail(data))
                 IN  IF s.ok THEN DecOk(Multi(data[1], s.chars))
                     ELSE InvalidUtf8
      [] mt = 4 -> DecOk(NoOp)
      [] mt = 5 ->
            IF Len(data) < 2 THEN DecPanic
            ELSE DecOk(U16(FromLeBytes(data[1], data[2])))
      [] mt = 6 ->
            IF Len(data) < 1 THEN DecPanic
            ELSE CASE data[1] = 0 -> DecOk(Status("Ok"))
                   [] data[1] = 1 -> DecOk(Status("Error"))
                   [] OTHER       -> DecOk(Status("Pending"))
      [] OTHER  -> InvalidMessageType(mt)

\* Message::from_bytes; data[i] of the code is data[i + 1] here
from_bytes(mt, data) ==
    CASE mt = 0 -> DecOk(Bytes(data))
      [] mt = 1 -> IF Len(data) < 1 THEN DecPanic ELSE DecOk(U8(data[1]))
      [] mt = 2 ->
            LET s == FromUtf8(data)
            IN  IF s.ok THEN DecOk(MyString(s.chars)) ELSE InvalidUtf8
      [] mt = 3 ->
            IF Len(data) < 1 THEN DecPanic
            ELSE LET s == FromUtf8(Tail(data))
                 IN  IF s.ok THEN DecOk(Multi(data[1], s.chars))
                     ELSE InvalidUtf8
      [] mt = 4 -> DecOk(NoOp)
      [] mt = 5 ->
            IF Len(data) < 2 THEN DecPanic
            ELSE DecOk(U16(FromLeBytes(data[1], data[2])))
      [] mt = 6 ->
            IF Len(data) < 1 THEN DecPanic
            ELSE CASE data[1] = 0 -> DecOk(Status("Ok"))
                   [] data[1] = 1 -> DecOk(Status("Error"))
                   [] data[1] = 2 -> DecOk(Status("Pending"))
                   [] OTHER       -> InvalidEnumValue(data[1])
      [] OTHER  -> InvalidMessageType(mt)

\* ------------------------------------------------------------------------
\* SerialManager, write side (serial_manager/mod.rs)
\* ------------------------------------------------------------------------
\* needs_escaping that knows the escape byte only
needs_escaping_escape_only(byte) == byte = ESCAPE_BYTE

\* SerialManager::needs_escaping
needs_escaping(byte) == byte = START_BYTE \/ byte = ESCAPE_BYTE

\* write_escaped_byte that writes the byte after the ESCAPE as it is
write_escaped_byte_unmasked(byte) ==
    IF needs_escaping(byte) THEN <<ESCAPE_BYTE, byte>>
    ELSE <<byte>>

\* SerialManager::write_escaped_byte: the bytes it writes
write_escaped_byte(byte) ==
    IF needs_escaping(byte) THEN <<ESCAPE_BYTE, XorU8(byte, XOR_BYTE)>>
    ELSE <<byte>>

\* SerialManager::write_escaped_bytes: the bytes it writes.  The loop over
\* bytes is unfolded as the loop over its first half followed by the loop
\* over its second half.
RECURSIVE write_escaped_bytes(_)
write_escaped_bytes(bytes) ==
    LET n == Len(bytes)
    IN  IF n = 0 THEN <<>>
        ELSE IF n = 1 THEN write_escaped_byte(bytes[1])
        ELSE write_escaped_bytes(SubSeq(bytes, 1, n \div 2))
             \o write_escaped_bytes(SubSeq(bytes, (n \div 2) + 1, n))

\* send whose length field counts the data only, not the message type
send_length_of_data(message) ==
    LET message_type_bytes == ToLeBytes(message_type(message))
        data               == to_bytes(message)
        length             == AsU16(Len(data))
        length_bytes       == ToLeBytes(length)
    IN  <<START_BYTE>> \o write_escaped_bytes(length_bytes)
        \o write_escaped_bytes(message_type_bytes)
        \o write_escaped_bytes(data)

\* send that closes the frame with a terminating zero byte
send_terminated(message) ==
    LET message_type_bytes == ToLeBytes(message_type(message))
        data               == to_bytes(message)
        length             == AsU16(Len(message_type_bytes) + Len(data))
        length_bytes       == ToLeBytes(length)
    IN  <<START_BYTE>> \o write_escaped_bytes(length_bytes)
        \o write_escaped_bytes(message_type_bytes)
        \o write_escaped_bytes(data) \o <<0>>

\* SerialManager::send: the bytes a successful call writes, in order
send(message) ==
    LET message_type_bytes == ToLeBytes(message_type(message))
        data               == to_bytes(message)
        length             == AsU16(Len(message_type_bytes) + Len(data))
        length_bytes       == ToLeBytes(length)
    IN  <<START_BYTE>> \o write_escaped_bytes(length_bytes)
        \o write_escaped_bytes(message_type_bytes)
        \o write_escaped_bytes(data)

\* ------------------------------------------------------------------------
\* SerialManager, write side, on a transport that may fail.  A transport t
\* holds the bytes written to it (out), the number of operations done on it
\* (n) and the number of the operation that fails (fail_at, 0 for none); k
\* is the io::Result of the last operation.
\* ------------------------------------------------------------------------
\* a transport on which nothing was written yet
Transport(fail_at) == [k |-> "Ok", out |-> <<>>, n |-> 0, fail_at |-> fail_at]

\* self.connection.write_all(buf), buf of one byte
write_all(t, buf) ==
    IF t.n + 1 = t.fail_at
    THEN [k |-> "Err", out |-> t.out, n |-> t.n + 1, fail_at |-> t.fail_at]
    ELSE [k |-> "Ok", out |-> t.out \o buf, n |-> t.n + 1,
          fail_at |-> t.fail_at]

\* self.connection.flush()
flush(t) ==
    IF t.n + 1 = t.fail_at
    THEN [k |-> "Err", out |-> t.out, n |-> t.n + 1, fail_at |-> t.fail_at]
    ELSE [k |-> "Ok", out |-> t.out, n |-> t.n + 1, fail_at |-> t.fail_at]

\* write_escaped_byte that drops the result of writing the ESCAPE byte
write_escaped_byte_io_unchecked(t, byte) ==
    IF needs_escaping(byte) THEN
        Let(write_all(t, <<ESCAPE_BYTE>>), LAMBDA a :
            write_all(a, <<XorU8(byte, XOR_BYTE)>>))
    ELSE write_all(t, <<byte>>)

\* SerialManager::write_escaped_byte with its io::Result
write_escaped_byte_io(t, byte) ==
    IF needs_escaping(byte) THEN
        Let(write_all(t, <<ESCAPE_BYTE>>), LAMBDA a :
            IF a.k # "Ok" THEN a
            ELSE write_all(a, <<XorU8(byte, XOR_BYTE)>>))
    ELSE write_all(t, <<byte>>)

\* SerialManager::write_escaped_bytes with its io::Result
RECURSIVE write_escaped_bytes_io(_, _)
write_escaped_bytes_io(t, bytes) ==
    IF bytes = <<>> THEN t
    ELSE Let(write_escaped_byte_io(t, Head(bytes)), LAMBDA a :
            IF a.k # "Ok" THEN a
            ELSE write_escaped_bytes_io(a, Tail(bytes)))

\* SerialManager::send with its io::Result: every ? returns the error at once
send_io(t, message) ==
    LET message_type_bytes == ToLeBytes(message_type(message))
        data               == to_bytes(message)
        length             == AsU16(Len(message_type_bytes) + Len(data))
        length_bytes       == ToLeBytes(length)
    IN  Let(write_all(t, <<START_BYTE>>), LAMBDA a :
            IF a.k # "Ok" THEN a
            ELSE
            Let(write_escaped_bytes_io(a, length_bytes), LAMBDA b :
                IF b.k # "Ok" THEN b
                ELSE
                Let(write_escaped_bytes_io(b, message_type_bytes), LAMBDA c :
                    IF c.k # "Ok" THEN c
                    ELSE
                    Let(write_escaped_bytes_io(c, data), LAMBDA d :
                        IF d.k # "Ok" THEN d
                        ELSE flush(d)))))

\* ------------------------------------------------------------------------
\* SerialManager, read side.  conn is the byte stream of the read half and p
\* the number of bytes already consumed from it; every read returns the new
\* p.  A read past the last byte fails with an io::Error (EOF, or the read
\* timeout of the transport).
\* ------------------------------------------------------------------------
\* ReceiveError::Io and ReceiveError::Decode
RecvIo == [class |-> "Io", err |-> "io::Error", arg |-> 0]

RecvDecode(e) == [class |-> "Decode", err |-> e.err, arg |-> e.arg]

\* SerialManager::read_byte: Ok(byte), Resync, or Error(io::Error)
read_byte(conn, p) ==
    IF p >= Len(conn) THEN [k |-> "Error", v |-> 0, p |-> p]
    ELSE IF conn[p + 1] = START_BYTE THEN [k |-> "Resync", v |-> 0, p |-> p + 1]
    ELSE [k |-> "Ok", v |-> conn[p + 1], p |-> p + 1]

\* read_escaped_byte that returns the byte after an ESCAPE as it is on the
\* wire, without the XOR
read_escaped_byte_unmasked(conn, p) ==
    Let(read_byte(conn, p), LAMBDA byte :
        IF byte.k # "Ok" THEN byte
        ELSE IF byte.v = ESCAPE_BYTE THEN
            Let(read_byte(conn, byte.p), LAMBDA next_byte :
                IF next_byte.k # "Ok" THEN next_byte
                ELSE [k |-> "Ok", v |-> next_byte.v, p |-> next_byte.p])
        ELSE byte)

\* read_escaped_byte that reads the byte after an ESCAPE straight from the
\* transport, so that a START there is unmasked like any other byte
read_escaped_byte_escapes_start(conn, p) ==
    Let(read_byte(conn, p), LAMBDA byte :
        IF byte.k # "Ok" THEN byte
        ELSE IF byte.v = ESCAPE_BYTE THEN
            IF byte.p >= Len(conn) THEN [k |-> "Error", v |-> 0, p |-> byte.p]
            ELSE [k |-> "Ok", v |-> XorU8(conn[byte.p + 1], XOR_BYTE),
                  p |-> byte.p + 1]
        ELSE byte)

\* read_escaped_byte that takes an ESCAPE after an ESCAPE for another
\* ESCAPE and unmasks the byte after it
read_escaped_byte_cascades(conn, p) ==
    Let(read_byte(conn, p), LAMBDA byte :
        IF byte.k # "Ok" THEN byte
        ELSE IF byte.v = ESCAPE_BYTE THEN
            Let(read_byte(conn, byte.p), LAMBDA next_byte :
                IF next_byte.k # "Ok" THEN next_byte
                ELSE IF next_byte.v = ESCAPE_BYTE THEN
                    Let(read_byte(conn, next_byte.p), LAMBDA third :
                        IF third.k # "Ok" THEN third
                        ELSE [k |-> "Ok", v |-> XorU8(third.v, XOR_BYTE),
                              p |-> third.p])
                ELSE [k |-> "Ok", v |-> XorU8(next_byte.v, XOR_BYTE),
                      p |-> next_byte.p])
        ELSE byte)

\* SerialManager::read_escaped_byte
read_escaped_byte(conn, p) ==
    Let(read_byte(conn, p), LAMBDA byte :
        IF byte.k # "Ok" THEN byte
        ELSE IF byte.v = ESCAPE_BYTE THEN
            Let(read_byte(conn, byte.p), LAMBDA next_byte :
                IF next_byte.k # "Ok" THEN next_byte
                ELSE [k |-> "Ok", v |-> XorU8(next_byte.v, XOR_BYTE),
                      p |-> next_byte.p])
        ELSE byte)

\* SerialManager::read_escaped_bytes: Ok(Vec<u8>), Resync or Error.  The
\* loop of `length` iterations is unfolded as its first half followed, from
\* the position that half leaves, by its second half; the first iteration
\* that fails ends the loop.
RECURSIVE read_escaped_bytes(_, _, _)
read_escaped_bytes(conn, p, length) ==
    IF length = 0 THEN [k |-> "Ok", v |-> <<>>, p |-> p]
    ELSE IF length = 1 THEN
        Let(read_escaped_byte(conn, p), LAMBDA b :
            IF b.k # "Ok" THEN [k |-> b.k, v |-> <<>>, p |-> b.p]
            ELSE [k |-> "Ok", v |-> <<b.v>>, p |-> b.p])
    ELSE
        Let(read_escaped_bytes(conn, p, length \div 2), LAMBDA a :
            IF a.k # "Ok" THEN a
            ELSE Let(read_escaped_bytes(conn, a.p, length - (length \div 2)),
                     LAMBDA b :
                        IF b.k # "Ok" THEN b
                        ELSE [k |-> "Ok", v |-> a.v \o b.v, p |-> b.p]))

\* SerialManager::read_u16
read_u16(conn, p) ==
    Let(read_escaped_bytes(conn, p, 2), LAMBDA bytes :
        IF bytes.k # "Ok" THEN [k |-> bytes.k, v |-> 0, p |-> bytes.p]
        ELSE [k |-> "Ok", v |-> FromLeBytes(bytes.v[1], bytes.v[2]),
              p |-> bytes.p])

\* wait_for_start_byte that takes a byte other than START for an error
wait_for_start_byte_strict(conn, p) ==
    Let(read_byte(conn, p), LAMBDA b :
        CASE b.k = "Ok"     -> [k |-> "Err", p |-> b.p]
          [] b.k = "Resync" -> [k |-> "Ok", p |-> b.p]
          [] b.k = "Error"  -> [k |-> "Err", p |-> b.p])

\* SerialManager::wait_for_start_byte: Ok(()) once a START was read, or the
\* io::Error
RECURSIVE wait_for_start_byte(_, _)
wait_for_start_byte(conn, p) ==
    Let(read_byte(conn, p), LAMBDA b :
        CASE b.k = "Ok"     -> wait_for_start_byte(conn, b.p)
          [] b.k = "Resync" -> [k |-> "Ok", p |-> b.p]
          [] b.k = "Error"  -> [k |-> "Err", p |-> b.p])

\* a `?` that reports the io::Error of a read as a decode error
Propagate_io_as_decode(r) ==
    IF r.k = "Resync" THEN [k |-> "Resync", p |-> r.p]
    ELSE [k |-> "Error", err |-> RecvDecode(InvalidMessageType(0)), p |-> r.p]

\* the `?` of read_message on a read that did not return Ok: Resync stays
\* Resync, an io::Error becomes ReceiveError::Io
Propagate(r) ==
    IF r.k = "Resync" THEN [k |-> "Resync", p |-> r.p]
    ELSE [k |-> "Error", err |-> RecvIo, p |-> r.p]

\* the last line of read_message: Ok(Message::from_bytes(message_type, data)?)
Decoded(m, p) ==
    CASE m.k = "Ok"    -> [k |-> "Ok", msg |-> m.msg, p |-> p]
      [] m.k = "Err"   -> [k |-> "Error", err |-> RecvDecode(m), p |-> p]
      [] m.k = "Panic" -> [k |-> "Panic", p |-> p]

\* read_message that refuses an unknown message type as soon as it has read
\* it, before the data
read_message_checks_type_first(conn, p) ==
    Let(read_u16(conn, p), LAMBDA length :
        IF length.k # "Ok" THEN Propagate(length)
        ELSE
        Let(read_u16(conn, length.p), LAMBDA mt :
            IF mt.k # "Ok" THEN Propagate(mt)
            ELSE IF mt.v > 6
            THEN Decoded(InvalidMessageType(mt.v), mt.p)
            ELSE IF length.v < 2 THEN [k |-> "Panic", p |-> mt.p]
            ELSE
            Let(read_escaped_bytes(conn, mt.p, length.v - 2), LAMBDA data :
                IF data.k # "Ok" THEN Propagate(data)
                ELSE Decoded(from_bytes(mt.v, data.v), data.p))))

\* read_message that reads `length` bytes of data instead of `length - 2`
read_message_reads_length(conn, p) ==
    Let(read_u16(conn, p), LAMBDA length :
        IF length.k # "Ok" THEN Propagate(length)
        ELSE
        Let(read_u16(conn, length.p), LAMBDA mt :
            IF mt.k # "Ok" THEN Propagate(mt)
            ELSE
            Let(read_escaped_bytes(conn, mt.p, length.v), LAMBDA data :
                IF data.k # "Ok" THEN Propagate(data)
                ELSE Decoded(from_bytes(mt.v, data.v), data.p))))

\* SerialManager::read_message: Ok(Message), Resync, Error(ReceiveError), or
\* the panic of `length - 2` (overflow check in a debug build, capacity
\* overflow of Vec::with_capacity in a release build) or of from_bytes
read_message(conn, p) ==
    Let(read_u16(conn, p), LAMBDA length :
        IF length.k # "Ok" THEN Propagate(length)
        ELSE
        Let(read_u16(conn, length.p), LAMBDA mt :
            IF mt.k # "Ok" THEN Propagate(mt)
            ELSE IF length.v < 2 THEN [k |-> "Panic", p |-> mt.p]
            ELSE
            Let(read_escaped_bytes(conn, mt.p, length.v - 2), LAMBDA data :
                IF data.k # "Ok" THEN Propagate(data)
                ELSE Decoded(from_bytes(mt.v, data.v), data.p))))

RECURSIVE receive_loop(_, _)
\* the loop of receive that resyncs once: a second START inside a frame is
\* reported as an error of the transport
receive_loop_one_resync(conn, p) ==
    Let(read_message(conn, p), LAMBDA r :
        CASE r.k = "Ok"     -> [k |-> "Ok", msg |-> r.msg, p |-> r.p]
          [] r.k = "Resync" ->
                Let(read_message(conn, r.p), LAMBDA q :
                    CASE q.k = "Ok"     -> [k |-> "Ok", msg |-> q.msg, p |-> q.p]
                      [] q.k = "Resync" -> [k |-> "Err", err |-> RecvIo, p |-> q.p]
                      [] q.k = "Error"  -> [k |-> "Err", err |-> q.err, p |-> q.p]
                      [] q.k = "Panic"  -> [k |-> "Panic", p |-> q.p])
          [] r.k = "Error"  -> [k |-> "Err", err |-> r.err, p |-> r.p]
          [] r.k = "Panic"  -> [k |-> "Panic", p |-> r.p])

\* the loop of receive with an automatic resync: after a decode error it
\* seeks the next START and reads on
receive_loop_resyncs_on_decode(conn, p) ==
    Let(read_message(conn, p), LAMBDA r :
        CASE r.k = "Ok"     -> [k |-> "Ok", msg |-> r.msg, p |-> r.p]
          [] r.k = "Resync" -> receive_loop(conn, r.p)
          [] r.k = "Error"  ->
                IF r.err.class = "Decode" THEN
                    Let(wait_for_start_byte(conn, r.p), LAMBDA w :
                        IF w.k = "Err"
                        THEN [k |-> "Err", err |-> RecvIo, p |-> w.p]
                        ELSE receive_loop(conn, w.p))
                ELSE [k |-> "Err", err |-> r.err, p |-> r.p]
          [] r.k = "Panic"  -> [k |-> "Panic", p |-> r.p])

\* the loop of receive that, after a Resync, seeks the next START instead of
\* taking the START just read as the start of the new frame
receive_loop_seeks_next_start(conn, p) ==
    Let(read_message(conn, p), LAMBDA r :
        CASE r.k = "Ok"     -> [k |-> "Ok", msg |-> r.msg, p |-> r.p]
          [] r.k = "Resync" ->
                Let(wait_for_start_byte(conn, r.p), LAMBDA w :
                    IF w.k = "Err"
                    THEN [k |-> "Err", err |-> RecvIo, p |-> w.p]
                    ELSE receive_loop(conn, w.p))
          [] r.k = "Error"  -> [k |-> "Err", err |-> r.err, p |-> r.p]
          [] r.k = "Panic"  -> [k |-> "Panic", p |-> r.p])

\* the loop of SerialManager::receive
receive_loop(conn, p) ==
    Let(read_message(conn, p), LAMBDA r :
        CASE r.k = "Ok"     -> [k |-> "Ok", msg |-> r.msg, p |-> r.p]
          [] r.k = "Resync" -> receive_loop(conn, r.p)
          [] r.k = "Error"  -> [k |-> "Err", err |-> r.err, p |-> r.p]
          [] r.k = "Panic"  -> [k |-> "Panic", p |-> r.p])

\* receive that goes on where the last call stopped: it reads a length
\* without seeking a START first
receive_without_seek(conn, p) == receive_loop(conn, p)

\* receive through a reader that has fetched one byte more than the frame
\* when it returns the message, and drops it
receive_reads_ahead(conn, p) ==
    Let(wait_for_start_byte(conn, p), LAMBDA w :
        IF w.k = "Err" THEN [k |-> "Err", err |-> RecvIo, p |-> w.p]
        ELSE Let(receive_loop(conn, w.p), LAMBDA r :
                IF r.k = "Ok" /\ r.p < Len(conn)
                THEN [k |-> "Ok", msg |-> r.msg, p |-> r.p + 1]
                ELSE r))

\* SerialManager::receive: Ok(Message), Err(ReceiveError) or a panic, and the
\* read position it leaves
receive(conn, p) ==
    Let(wait_for_start_byte(conn, p), LAMBDA w :
        IF w.k = "Err" THEN [k |-> "Err", err |-> RecvIo, p |-> w.p]
        ELSE receive_loop(conn, w.p))

\* what a receive() call returns, without the read position
RecvOk(m) == [k |-> "Ok", msg |-> m]

RecvErr(e) == [k |-> "Err", err |-> e]

RecvPanic == [k |-> "Panic"]

Outcome(r) ==
    CASE r.k = "Ok"    -> RecvOk(r.msg)
      [] r.k = "Err"   -> RecvErr(r.err)
      [] r.k = "Panic" -> RecvPanic

\* ------------------------------------------------------------------------
\* Inputs of the model
\* ------------------------------------------------------------------------
\* payload bytes: the two sensitive bytes
DataBytes == {ESCAPE_BYTE, START_BYTE}

\* chars of the texts: 'X' (the UTF-8 byte 0x58) and U+00E9 (two bytes)
Chars == {88, 233}

StatusValues == {"Ok", "Error", "Pending"}

ShortMsgs ==
    {NoOp}
    \cup {U8(n) : n \in {87, START_BYTE}}
    \cup {Bytes(d) : d \in SeqsUpTo(DataBytes, MaxData)}
    \cup {MyString(s) : s \in SeqsUpTo(Chars, MaxStr)}
    \cup {Multi(ESCAPE_BYTE, s) : s \in SeqsUpTo(Chars, MaxStr)}
    \cup {U16(n) : n \in {4660, 22594}}
    \cup {Status(st) : st \in StatusValues}

\* messages whose length field holds a sensitive byte: 2 + 64 = 0x42 and
\* 2 + 86 = 0x58
LongMsgs == {Bytes(Repeat(0, 64)), Bytes(Repeat(START_BYTE, 86))}

Msgs == ShortMsgs \cup LongMsgs

\* the messages whose frame may be cut short on the link
CutMsgs ==
    {NoOp, U16(22594), Bytes(Repeat(0, 64))}

\* the frame send writes for each message
Frame == [m \in Msgs \cup CutMsgs |-> send(m)]

\* line noise between frames: no START in it
Garbage == {<<ESCAPE_BYTE>>, <<255, 0, ESCAPE_BYTE>>}

\* tags of the frames a foreign peer writes: the two text variants, Status,
\* and tags outside the catalog, with and without sensitive bytes, in the low
\* and in the high byte
RawTags == {2, 3, 6, 7, START_BYTE, 262}

\* their payloads: none, two bytes of text with a sensitive byte, and two
\* bytes that are not UTF-8
RawPayloads == {<<>>, <<START_BYTE, 0>>, <<255, 255>>}

\* the escaping rule as the protocol description states it, for the peer:
\* 0x58 becomes 0x42 0x31, 0x42 becomes 0x42 0x2B, any other byte is itself
Stuffed(bytes) ==
    Concat([i \in 1..Len(bytes) |->
              CASE bytes[i] = 88 -> <<66, 49>>
                [] bytes[i] = 66 -> <<66, 43>>
                [] OTHER         -> <<bytes[i]>>])

\* the frame layout of the protocol description: start byte, length of type
\* and data (LE u16), message type (LE u16), data; all but the start escaped
WireFormat(tag, payload) ==
    <<88>>
    \o Stuffed(<<(2 + Len(payload)) % 256, (2 + Len(payload)) \div 256,
                 tag % 256, tag \div 256>> \o payload)

\* a complete frame a peer writes byte by byte, not through Message
RawFrame(tag, payload) == WireFormat(tag, payload)

\* the peer frames that may be cut short: an unknown tag and a text that is
\* not UTF-8, both with two bytes of payload
CutRawFrames == {<<7, <<START_BYTE, 0>>>>, <<2, <<255, 255>>>>}

\* frames whose length field is below the two bytes of the message type
RuntLengths == {0, 1}

RuntTags == {4}

\* a frame header with the length field as given
RuntFrame(length, tag) ==
    <<88>> \o Stuffed(<<length % 256, length \div 256,
                        tag % 256, tag \div 256>>)

\* tags and payloads handed to from_bytes directly: every tag of the catalog
\* and two outside it; every payload of one byte, and payloads of none and of
\* two bytes
DecoderTags == 0..7 \cup {262}

DecoderPayloads ==
    {<<b>> : b \in 0..255}
    \cup SeqsUpTo({0, 2, 3, START_BYTE, 195, 255}, 2)

\* messages handed to a sender on its own: every U8, and Bytes whose length
\* field has a sensitive byte, crosses a byte border, is the largest u16, and
\* is beyond it
SinkSizes == {0, 64, 86, 254, 65533, 65534, 65535}

SinkMsgs ==
    {U8(n) : n \in 0..255}
    \cup {Bytes(Repeat(0, n)) : n \in SinkSizes}
    \cup {Bytes(<<START_BYTE, 0, ESCAPE_BYTE>>)}

\* messages of the codec round trip: every u8, u16 values at the byte
\* borders, payloads with sensitive and high bytes, and texts with chars of
\* one to four UTF-8 bytes at the borders of each width
CodecChars ==
    {0, 88, 127, 128, 233, 2047, 2048, 8364, 55295, 57344, 65535, 65536,
     128512, 1114111}

CodecMsgs ==
    {NoOp}
    \cup {U8(n) : n \in 0..255}
    \cup {Bytes(d) : d \in SeqsUpTo({0, ESCAPE_BYTE, START_BYTE, 255},
                                    MaxData + 1)}
    \cup {MyString(s) : s \in SeqsUpTo(CodecChars, MaxStr + 1)}
    \cup {Multi(n, s) : n \in {0, ESCAPE_BYTE, 255},
                        s \in SeqsUpTo(CodecChars, MaxStr)}
    \cup {U16(n) : n \in {0, 255, 256, 4660, 22594, 65280, 65535}}
    \cup {Status(st) : st \in StatusValues}

\* ------------------------------------------------------------------------
\* State
\* ------------------------------------------------------------------------
VARIABLES
    wire,     \* every byte put on the link towards the receiver, in order
    pos,      \* number of bytes of wire the receiver has consumed
    fed,      \* history: the segments wire is made of
    written,  \* every byte the sending SerialManager wrote, in order
    sent,     \* history: the messages of the send calls
    calls,    \* history: the receive() calls, each with where it started,
              \* how many segments were on the link, its outcome and where
              \* it left the read position
    codec     \* a direct use of the codec: the message, then its tag and
              \* bytes, then what from_bytes makes of them

vars == <<wire, pos, fed, written, sent, calls, codec>>

Init ==
    /\ wire = <<>>
    /\ pos = 0
    /\ fed = <<>>
    /\ written = <<>>
    /\ sent = <<>>
    /\ calls = <<>>
    /\ codec = [stage |-> "none"]

\* the receiving thread is gone once a receive() panicked
Crashed == \E i \in DOMAIN calls : calls[i].res.k = "Panic"

\* a segment goes onto the link
Put(seg) ==
    /\ Len(fed) < MaxSegs
    /\ Len(wire) < MaxWire
    /\ wire' = wire \o seg.bytes
    /\ fed' = Append(fed, seg)

\* sender.send(message): the frame goes onto the link
Send(m) ==
    /\ Put([kind |-> "frame", bytes |-> Frame[m], msg |-> m])
    /\ written' = written \o Frame[m]
    /\ sent' = Append(sent, m)
    /\ UNCHANGED <<pos, calls, codec>>

\* noise on the line
Noise(g) ==
    /\ Put([kind |-> "garbage", bytes |-> g])
    /\ UNCHANGED <<pos, written, sent, calls, codec>>

\* a frame of which only the first n bytes reach the link (a peer that is
\* reset while it sends); n may be the whole frame
Cut(m, n) ==
    /\ n <= Len(Frame[m])
    /\ Put([kind |-> "cut", bytes |-> SubSeq(Frame[m], 1, n),
            whole |-> (n = Len(Frame[m])), msg |-> m, n |-> n])
    /\ UNCHANGED <<pos, written, sent, calls, codec>>

\* the peer that was cut short writes the remaining bytes of its frame
Rest ==
    /\ fed # <<>>
    /\ fed[Len(fed)].kind = "cut"
    /\ ~fed[Len(fed)].whole
    /\ Put([kind |-> "rest",
            bytes |-> SubSeq(Frame[fed[Len(fed)].msg], fed[Len(fed)].n + 1,
                             Len(Frame[fed[Len(fed)].msg]))])
    /\ UNCHANGED <<pos, written, sent, calls, codec>>

\* a peer's frame with an unknown tag or a payload that does not decode, of
\* which only the first n bytes reach the link, short of its last byte
CutRaw(tag, payload, n) ==
    /\ n < Len(RawFrame(tag, payload))
    /\ Put([kind |-> "cutraw", bytes |-> SubSeq(RawFrame(tag, payload), 1, n),
            tag |-> tag, payload |-> payload])
    /\ UNCHANGED <<pos, written, sent, calls, codec>>

\* a complete frame written by a peer byte by byte
Raw(tag, payload) ==
    /\ Put([kind |-> "raw", bytes |-> RawFrame(tag, payload),
            tag |-> tag, payload |-> payload])
    /\ UNCHANGED <<pos, written, sent, calls, codec>>

\* the header of a frame whose length field is below 2, written by a peer
Runt(length, tag) ==
    /\ Put([kind |-> "runt", bytes |-> RuntFrame(length, tag),
            length |-> length, tag |-> tag])
    /\ UNCHANGED <<pos, written, sent, calls, codec>>

\* receiver.receive().  A call on an idle link blocks in read_exact until
\* the first byte arrives, so it is taken once there is a byte to read; when
\* the bytes run out later in the call, the read fails (EOF or the read
\* timeout of the transport).
Receive ==
    /\ Len(calls) < MaxCalls
    /\ ~Crashed
    /\ pos < Len(wire)
    /\ LET r == receive(wire, pos)
       IN  /\ pos' = r.p
           /\ calls' = Append(calls, [at |-> pos, seen |-> Len(fed),
                                      res |-> Outcome(r), end |-> r.p])
    /\ UNCHANGED <<wire, fed, written, sent, codec>>

Next ==
    \/ \E m \in Msgs : Send(m)
    \/ \E g \in Garbage : Noise(g)
    \/ \E m \in CutMsgs : \E n \in 1..MaxCut : Cut(m, n)
    \/ Rest
    \/ \E f \in CutRawFrames : \E n \in 4..MaxCut : CutRaw(f[1], f[2], n)
    \/ \E t \in RawTags : \E d \in RawPayloads : Raw(t, d)
    \/ \E l \in RuntLengths : \E t \in RuntTags : Runt(l, t)
    \/ Receive

Spec == Init /\ [][Next]_vars

\* ------------------------------------------------------------------------
\* The codec on its own: a message is encoded, then decoded
\* ------------------------------------------------------------------------
CodecInit ==
    /\ wire = <<>>
    /\ pos = 0
    /\ fed = <<>>
    /\ written = <<>>
    /\ sent = <<>>
    /\ calls = <<>>
    /\ codec \in {[stage |-> "message", msg |-> m] : m \in CodecMsgs}

\* msg.message_type() and msg.to_bytes()
Encode ==
    /\ codec.stage = "message"
    /\ codec' = [stage |-> "encoded", msg |-> codec.msg,
                 tag |-> message_type(codec.msg),
                 bytes |-> to_bytes(codec.msg)]
    /\ UNCHANGED <<wire, pos, fed, written, sent, calls>>

\* Message::from_bytes(tag, bytes)
Decode ==
    /\ codec.stage = "encoded"
    /\ codec' = [stage |-> "decoded", msg |-> codec.msg, tag |-> codec.tag,
                 bytes |-> codec.bytes,
                 res |-> from_bytes(codec.tag, codec.bytes)]
    /\ UNCHANGED <<wire, pos, fed, written, sent, calls>>

CodecNext == Encode \/ Decode

CodecSpec == CodecInit /\ [][CodecNext]_vars

\* ------------------------------------------------------------------------
\* The decoder on its own: from_bytes on a tag and a payload
\* ------------------------------------------------------------------------
\* Message::from_bytes(tag, data)
FromBytes(tag, data) ==
    /\ codec.stage = "none"
    /\ codec' = [stage |-> "raw", tag |-> tag, bytes |-> data,
                 res |-> from_bytes(tag, data)]
    /\ UNCHANGED <<wire, pos, fed, written, sent, calls>>

\* Message::Status(st).message_type() and .to_bytes()
StatusToBytes(st) ==
    /\ codec.stage = "none"
    /\ codec' = [stage |-> "status", status |-> st,
                 tag |-> message_type(Status(st)),
                 bytes |-> to_bytes(Status(st))]
    /\ UNCHANGED <<wire, pos, fed, written, sent, calls>>

DecoderNext ==
    \/ \E t \in DecoderTags : \E d \in DecoderPayloads : FromBytes(t, d)
    \/ \E st \in StatusValues : StatusToBytes(st)

DecoderSpec == Init /\ [][DecoderNext]_vars

\* ------------------------------------------------------------------------
\* The sender on its own: one send into a buffer nobody reads
\* ------------------------------------------------------------------------
\* send that writes to the half of the transport the manager reads from
SendInto_loopback(m) ==
    /\ sent = <<>>
    /\ written' = send(m)
    /\ sent' = <<m>>
    /\ wire' = wire \o send(m)
    /\ UNCHANGED <<pos, fed, calls, codec>>

\* SerialManager::new(buffer).send(message)
SendInto(m) ==
    /\ sent = <<>>
    /\ written' = send(m)
    /\ sent' = <<m>>
    /\ UNCHANGED <<wire, pos, fed, calls, codec>>

SinkNext == \E m \in SinkMsgs : SendInto(m)

SinkSpec == Init /\ [][SinkNext]_vars

\* ------------------------------------------------------------------------
\* One manager that sends and receives on the same transport: the peer puts
\* frames, whole or cut short, on its read half, the manager calls receive,
\* and at some point it calls send, which writes to its write half
\* ------------------------------------------------------------------------
\* the messages the manager sends
ReplyMsgs == {NoOp, U8(START_BYTE)}

DuplexNext ==
    \/ \E m \in CutMsgs : \E n \in 1..MaxCut : Cut(m, n)
    \/ \E t \in RawTags : \E d \in RawPayloads : Raw(t, d)
    \/ Receive
    \/ \E m \in ReplyMsgs : SendInto(m)

DuplexSpec == Init /\ [][DuplexNext]_vars

\* ------------------------------------------------------------------------
\* A peer that begins frames and abandons them, one after the other, and
\* then sends a whole frame
\* ------------------------------------------------------------------------
\* the frames it abandons, and after how many bytes: after the START, inside
\* the type, and after an ESCAPE of the payload
InterruptMsgs == {NoOp, U16(22594)}

InterruptAt == {1, 4, 6}

\* the peer writes the first n bytes of the frame of m and stops
Interrupt(m, n) ==
    /\ n < Len(Frame[m])
    /\ Len(fed) < MaxResync
    /\ \A j \in DOMAIN fed : fed[j].kind = "cut"
    /\ wire' = wire \o SubSeq(Frame[m], 1, n)
    /\ fed' = Append(fed, [kind |-> "cut", bytes |-> SubSeq(Frame[m], 1, n),
                            whole |-> FALSE, msg |-> m, n |-> n])
    /\ UNCHANGED <<pos, written, sent, calls, codec>>

\* the peer sends the frame of m after the frames it abandoned
Resume(m) ==
    /\ fed # <<>>
    /\ \A j \in DOMAIN fed : fed[j].kind = "cut"
    /\ wire' = wire \o Frame[m]
    /\ fed' = Append(fed, [kind |-> "frame", bytes |-> Frame[m], msg |-> m])
    /\ written' = written \o Frame[m]
    /\ sent' = Append(sent, m)
    /\ UNCHANGED <<pos, calls, codec>>

ResyncNext ==
    \/ \E m \in InterruptMsgs : \E n \in InterruptAt : Interrupt(m, n)
    \/ \E m \in ReplyMsgs : Resume(m)
    \/ Receive

ResyncSpec == Init /\ [][ResyncNext]_vars

\* ------------------------------------------------------------------------
\* The reader on its own: read_escaped_byte on the raw bytes of the inside
\* of a frame
\* ------------------------------------------------------------------------
\* the raw bytes: every byte, followed by a sensitive byte, a masked
\* sensitive byte, the mask itself, or the lowest or highest byte
SecondBytes == {0, 43, 49, ESCAPE_BYTE, START_BYTE, XOR_BYTE, 255}

RawPairs == {<<r, r2>> : r \in 0..255, r2 \in SecondBytes}

\* self.read_escaped_byte() with raw as the next bytes of the connection
ReadEscapedByte(raw) ==
    /\ codec.stage = "none"
    /\ codec' = [stage |-> "unstuffed", raw |-> raw,
                 res |-> read_escaped_byte(raw, 0)]
    /\ UNCHANGED <<wire, pos, fed, written, sent, calls>>

UnstuffNext == \E raw \in RawPairs : ReadEscapedByte(raw)

UnstuffSpec == Init /\ [][UnstuffNext]_vars

\* ------------------------------------------------------------------------
\* The sender on a transport that fails: one send, with the failure at one
\* of its operations or at none
\* ------------------------------------------------------------------------
\* SerialManager::new(transport).send(message)
SendFaulty(m, fail_at) ==
    /\ sent = <<>>
    /\ codec.stage = "none"
    /\ LET r == send_io(Transport(fail_at), m)
       IN  /\ written' = r.out
           /\ codec' = [stage |-> "send", res |-> r.k, ops |-> r.n,
                        fail_at |-> fail_at]
    /\ sent' = <<m>>
    /\ UNCHANGED <<wire, pos, fed, calls>>

FaultNext == \E m \in ShortMsgs : \E a \in 0..MaxFault : SendFaulty(m, a)

FaultSpec == Init /\ [][FaultNext]_vars

\* ------------------------------------------------------------------------
\* Properties
\* ------------------------------------------------------------------------
\* number of bytes of wire up to and including segment j
RECURSIVE SegEnd(_)
SegEnd(j) == IF j = 0 THEN 0 ELSE SegEnd(j - 1) + Len(fed[j].bytes)

\* call c started at the first byte of segment j, and segment j was on the
\* link by then
StartsAt(c, j) == j <= c.seen /\ c.at = SegEnd(j - 1)

\* call c started at the first byte of segment j, segment j is of kind k1,
\* segment j + 1 is a frame written by send, and both were on the link
BeforeFrame(c, j, k1) ==
    /\ j + 1 <= c.seen
    /\ c.at = SegEnd(j - 1)
    /\ fed[j].kind = k1
    /\ fed[j + 1].kind = "frame"

\* number of START bytes in a byte sequence
StartCount(bytes) == Cardinality({i \in DOMAIN bytes : bytes[i] = 88})

\* the frame of message m, by the frame layout of the protocol description
WireFormatOf(m) == WireFormat(message_type(m), to_bytes(m))

\* the number of the segment that holds the h-th frame written by send, 0 if
\* there are fewer
RECURSIVE NthFrameFrom(_, _)
NthFrameFrom(h, j) ==
    IF j > Len(fed) THEN 0
    ELSE IF fed[j].kind = "frame"
         THEN IF h = 1 THEN j ELSE NthFrameFrom(h - 1, j + 1)
         ELSE NthFrameFrom(h, j + 1)

NthFrame(h) == NthFrameFrom(h, 1)

\* C1: a receive() that starts at the first byte of a frame written by
\* send(msg), with the whole frame on the link, returns Ok(msg).
C1_FrameRoundTrip ==
    \A i \in DOMAIN calls : \A j \in DOMAIN fed :
        (StartsAt(calls[i], j) /\ fed[j].kind = "frame")
            => calls[i].res = RecvOk(fed[j].msg)

\* a message with the sensitive byte 0x58 both in its length field and in
\* all of its payload came back from receive()
C1_Witness ==
    \E i \in DOMAIN calls : \E j \in DOMAIN fed :
        /\ StartsAt(calls[i], j)
        /\ fed[j].kind = "frame"
        /\ fed[j].msg = Bytes(Repeat(START_BYTE, 86))
        /\ calls[i].res = RecvOk(Bytes(Repeat(START_BYTE, 86)))

\* C2, as stated: a receive() on a prefix of a frame, of one byte or more up
\* to the whole frame, followed by frame(msg2) returns msg2.
C2_AnyPrefix ==
    \A i \in DOMAIN calls : \A j \in DOMAIN fed :
        BeforeFrame(calls[i], j, "cut")
            => calls[i].res = RecvOk(fed[j + 1].msg)

\* C2, amended: a receive() on a proper prefix of a frame followed by
\* frame(msg2) returns msg2.
C2_ProperPrefix ==
    \A i \in DOMAIN calls : \A j \in DOMAIN fed :
        (BeforeFrame(calls[i], j, "cut") /\ ~fed[j].whole)
            => calls[i].res = RecvOk(fed[j + 1].msg)

\* a frame cut right after an ESCAPE byte was followed by the frame of a
\* message with sensitive payload bytes, and receive() returned that message
C2_Witness ==
    \E i \in DOMAIN calls : \E j \in DOMAIN fed :
        /\ BeforeFrame(calls[i], j, "cut")
        /\ ~fed[j].whole
        /\ Len(fed[j].bytes) > 1
        /\ fed[j].bytes[Len(fed[j].bytes)] = ESCAPE_BYTE
        /\ fed[j + 1].msg = Bytes(<<START_BYTE>>)
        /\ calls[i].res = RecvOk(Bytes(<<START_BYTE>>))

\* C3: a receive() on garbage without a START byte followed by frame(msg)
\* returns msg.
C3_GarbagePrefix ==
    \A i \in DOMAIN calls : \A j \in DOMAIN fed :
        BeforeFrame(calls[i], j, "garbage")
            => calls[i].res = RecvOk(fed[j + 1].msg)

\* garbage that ends in the ESCAPE byte was skipped and the message after it
\* returned
C3_Witness ==
    \E i \in DOMAIN calls : \E j \in DOMAIN fed :
        /\ BeforeFrame(calls[i], j, "garbage")
        /\ fed[j].bytes = <<255, 0, ESCAPE_BYTE>>
        /\ calls[i].res = RecvOk(fed[j + 1].msg)
        /\ calls[i].end = SegEnd(j + 1)

\* C4: the sender has written as many START bytes as there were send calls,
\* and no frame holds a START byte after its first byte.
C4_StartOnlyFirst ==
    /\ StartCount(written) = Len(sent)
    /\ \A j \in DOMAIN fed :
        fed[j].kind = "frame"
            => /\ fed[j].bytes[1] = 88
               /\ \A n \in 2..Len(fed[j].bytes) : fed[j].bytes[n] # 88

\* two messages were sent, one with START bytes in its payload
C4_Witness ==
    /\ Len(sent) = 2
    /\ \E h \in DOMAIN sent : sent[h] = Bytes(<<START_BYTE>>)
    /\ StartCount(written) = 2

\* C5: the bytes send writes for a message are 0x58 and then the stuffed
\* bytes of length (2 + |payload|, LE), type (the tag, LE) and payload, and
\* nothing more; with the three frames the claim spells out.
C5_WireFormat ==
    /\ \A j \in DOMAIN fed :
        fed[j].kind = "frame" => fed[j].bytes = WireFormatOf(fed[j].msg)
    /\ Len(sent) = 1 => written = WireFormatOf(sent[1])
    /\ (Len(sent) = 1 /\ sent[1] = NoOp) => written = <<88, 2, 0, 4, 0>>
    /\ (Len(sent) = 1 /\ sent[1] = Bytes(<<88>>))
            => written = <<88, 3, 0, 0, 0, 66, 49>>
    /\ (Len(sent) = 1 /\ sent[1] = Bytes(Repeat(0, 64)))
            => /\ SubSeq(written, 1, 6) = <<88, 66, 43, 0, 0, 0>>
               /\ written = <<88, 66, 43, 0, 0, 0>> \o Repeat(0, 64)

\* the message of 64 zero bytes, whose length byte is the ESCAPE byte, was
\* sent
C5_Witness ==
    /\ Len(sent) = 1
    /\ sent[1] = Bytes(Repeat(0, 64))
    /\ Len(written) = 70

\* C6: the bytes the sender has written are the frames of the messages sent,
\* in call order, with nothing between them and nothing after the last.
C6_SendOrder ==
    written = Concat([h \in DOMAIN sent |-> WireFormatOf(sent[h])])

\* two different messages were sent one after the other
C6_Witness ==
    /\ Len(sent) = 2
    /\ sent[1] = Status("Pending")
    /\ sent[2] = U8(START_BYTE)
    /\ written = <<88, 3, 0, 6, 0, 2, 88, 3, 0, 1, 0, 66, 49>>

\* the link holds only frames written by send and garbage
OnlyFramesAndGarbage ==
    \A j \in DOMAIN fed : fed[j].kind \in {"frame", "garbage"}

\* the h-th frame was on the link when the h-th receive() was called
Served(h) == NthFrame(h) # 0 /\ NthFrame(h) <= calls[h].seen

\* C7: on a link of frames, back to back or with garbage between them, the
\* i-th receive() returns the message of the i-th frame, when each call so
\* far found its frame on the link.
C7_ReceiveOrder ==
    OnlyFramesAndGarbage =>
        \A i \in DOMAIN calls :
            (\A h \in 1..i : Served(h))
                => /\ calls[i].res = RecvOk(fed[NthFrame(i)].msg)
                   /\ calls[i].end = SegEnd(NthFrame(i))

\* two frames with garbage between them were on the link and two calls
\* returned their two different messages in order
C7_Witness ==
    /\ Len(fed) = 3
    /\ fed[1].kind = "frame"
    /\ fed[2].kind = "garbage"
    /\ fed[3].kind = "frame"
    /\ fed[1].msg # fed[3].msg
    /\ Len(calls) = 2
    /\ calls[1].seen = 3
    /\ calls[1].res = RecvOk(fed[1].msg)
    /\ calls[2].res = RecvOk(fed[3].msg)

\* C8: from_bytes(msg.message_type(), msg.to_bytes()) is Ok(msg).
C8_CodecRoundTrip ==
    codec.stage = "decoded" => codec.res = DecOk(codec.msg)

\* a Multi whose text is a char of four UTF-8 bytes went through the codec
C8_Witness ==
    /\ codec.stage = "decoded"
    /\ codec.msg = Multi(ESCAPE_BYTE, <<128512>>)
    /\ codec.bytes = <<66, 240, 159, 152, 128>>
    /\ codec.res = DecOk(codec.msg)

\* C9: for a tag above 6, from_bytes returns InvalidMessageType(tag) whatever
\* the payload, and a receive() on a complete frame with that tag returns
\* ReceiveError::Decode(InvalidMessageType(tag)).
C9_UnknownTag ==
    \A j \in DOMAIN fed :
        (fed[j].kind = "raw" /\ fed[j].tag > 6)
            => /\ from_bytes(fed[j].tag, fed[j].payload)
                    = InvalidMessageType(fed[j].tag)
               /\ \A i \in DOMAIN calls :
                    StartsAt(calls[i], j)
                        => calls[i].res
                            = RecvErr(RecvDecode(InvalidMessageType(fed[j].tag)))

\* a frame with tag 262 (low byte 6) and a payload that holds a START byte
\* was received as an unknown tag
C9_Witness ==
    \E i \in DOMAIN calls : \E j \in DOMAIN fed :
        /\ StartsAt(calls[i], j)
        /\ fed[j].kind = "raw"
        /\ fed[j].tag = 262
        /\ fed[j].payload = <<START_BYTE, 0>>
        /\ calls[i].res.k = "Err"
        /\ calls[i].res.err.class = "Decode"
        /\ calls[i].res.err.err = "InvalidMessageType"
        /\ calls[i].res.err.arg = 262

\* C10: receive() on the wire 58 02 00 06 00 returns
\* Err(ReceiveError::Decode(DecodeError::InvalidMessageType(6))).
C10_Tag6EmptyPayload ==
    \A i \in DOMAIN calls : \A j \in DOMAIN fed :
        (StartsAt(calls[i], j) /\ fed[j].bytes = <<88, 2, 0, 6, 0>>)
            => calls[i].res = RecvErr(RecvDecode(InvalidMessageType(6)))

\* C11: from_bytes on a fixed-shape tag (U8 and Status: 1 byte, U16: 2
\* bytes, Multi: at least 1 byte) with a payload shorter than the shape
\* returns a DecodeError; it does not panic.
C11_UnderLength ==
    (/\ codec.stage = "raw"
     /\ \/ codec.tag \in {1, 3, 6} /\ Len(codec.bytes) < 1
        \/ codec.tag = 5 /\ Len(codec.bytes) < 2)
        => codec.res.k = "Err"

\* C12: a receive() that reads a frame whose length field is 0 or 1 does not
\* panic: it returns a decode-class error, or it waits for the next START
\* and returns the message of the frame that starts there (an io::Error when
\* the link ends before a next frame).
C12_LengthBelowTwo ==
    \A i \in DOMAIN calls : \A j \in DOMAIN fed :
        (StartsAt(calls[i], j) /\ fed[j].kind = "runt")
            => \/ /\ calls[i].res.k = "Err"
                  /\ calls[i].res.err.class = "Decode"
               \/ /\ j + 1 <= calls[i].seen
                  /\ fed[j + 1].kind = "frame"
                  /\ calls[i].res = RecvOk(fed[j + 1].msg)
               \/ /\ j = calls[i].seen
                  /\ calls[i].res = RecvErr(RecvIo)

\* a byte sequence with a byte that occurs in no UTF-8 text
NotUtf8(d) == \E n \in DOMAIN d : d[n] \in {192, 193} \cup (245..255)

\* C13: a receive() on a complete frame with tag 2 whose payload is not
\* UTF-8, or with tag 3 whose bytes after the first are not UTF-8, returns
\* Err(ReceiveError::Decode(DecodeError::InvalidUtf8)), at the end of that
\* frame.
C13_InvalidUtf8 ==
    \A i \in DOMAIN calls : \A j \in DOMAIN fed :
        (/\ StartsAt(calls[i], j)
         /\ fed[j].kind = "raw"
         /\ \/ fed[j].tag = 2 /\ NotUtf8(fed[j].payload)
            \/ /\ fed[j].tag = 3
               /\ fed[j].payload # <<>>
               /\ NotUtf8(Tail(fed[j].payload)))
            => /\ calls[i].res = RecvErr(RecvDecode(InvalidUtf8))
               /\ calls[i].end = SegEnd(j)

\* the wire 58 04 00 02 00 FF FF was received as InvalidUtf8
C13_Witness ==
    \E i \in DOMAIN calls :
        /\ calls[i].at = 0
        /\ SubSeq(wire, 1, calls[i].end) = <<88, 4, 0, 2, 0, 255, 255>>
        /\ calls[i].res.k = "Err"
        /\ calls[i].res.err.class = "Decode"
        /\ calls[i].res.err.err = "InvalidUtf8"

\* C14: from_bytes on tag 6 with first payload byte 0, 1, 2 returns Status
\* Ok, Error, Pending, and with any other first byte b returns
\* InvalidEnumValue(b); to_bytes of a Status is that one byte.
C14_StatusCodePoints ==
    /\ (codec.stage = "raw" /\ codec.tag = 6 /\ Len(codec.bytes) >= 1)
            => codec.res
                = CASE codec.bytes[1] = 0 -> DecOk(Status("Ok"))
                    [] codec.bytes[1] = 1 -> DecOk(Status("Error"))
                    [] codec.bytes[1] = 2 -> DecOk(Status("Pending"))
                    [] OTHER -> InvalidEnumValue(codec.bytes[1])
    /\ codec.stage = "status"
            => /\ codec.tag = 6
               /\ codec.bytes
                    = CASE codec.status = "Ok"      -> <<0>>
                        [] codec.status = "Error"   -> <<1>>
                        [] codec.status = "Pending" -> <<2>>

\* the status byte 3, the first above the code points, was refused
C14_Witness ==
    /\ codec.stage = "raw"
    /\ codec.tag = 6
    /\ codec.bytes = <<3, 0>>
    /\ codec.res.k = "Err"
    /\ codec.res.err = "InvalidEnumValue"
    /\ codec.res.arg = 3

\* segment n is a frame cut before its last byte
ProperCut(n) == fed[n].kind = "cut" /\ ~fed[n].whole

\* the link from segment j to its end, as call c found it, holds no complete
\* frame: garbage, then frames that are cut short
RunsDry(c, j) ==
    /\ j <= c.seen
    /\ c.at = SegEnd(j - 1)
    /\ \E k \in j..(c.seen + 1) :
        /\ \A n \in j..(k - 1) : fed[n].kind = "garbage"
        /\ \A n \in k..c.seen : ProperCut(n)

\* C15: a receive() during which the transport runs out of bytes (while it
\* seeks START, reads the length, the type or the payload, or reads the byte
\* after an ESCAPE) returns Err(ReceiveError::Io), having read all the bytes
\* there were.
C15_IoErrorSurfaced ==
    \A i \in DOMAIN calls : \A j \in DOMAIN fed :
        RunsDry(calls[i], j)
            => /\ calls[i].res = RecvErr(RecvIo)
               /\ calls[i].end = SegEnd(calls[i].seen)

\* the link ended right after an ESCAPE byte of a payload, and receive()
\* returned the io::Error
C15_Witness ==
    \E i \in DOMAIN calls : \E j \in DOMAIN fed :
        /\ RunsDry(calls[i], j)
        /\ j = calls[i].seen
        /\ fed[j].bytes = <<88, 4, 0, 5, 0, ESCAPE_BYTE>>
        /\ calls[i].res = RecvErr(RecvIo)

\* segment j is a complete frame that from_bytes refuses
Offending(j) ==
    /\ fed[j].kind = "raw"
    /\ from_bytes(fed[j].tag, fed[j].payload).k = "Err"

\* C16: the receive() that starts at a complete frame from_bytes refuses
\* returns that DecodeError and has read the bytes of that frame and no
\* more; when the frame of send(msg) follows, the next receive() returns msg.
C16_NoAutoResync ==
    \A i \in DOMAIN calls : \A j \in DOMAIN fed :
        (StartsAt(calls[i], j) /\ Offending(j))
            => /\ calls[i].res
                    = RecvErr(RecvDecode(from_bytes(fed[j].tag, fed[j].payload)))
               /\ calls[i].end = SegEnd(j)
               /\ (/\ i + 1 \in DOMAIN calls
                   /\ j + 1 <= calls[i + 1].seen
                   /\ fed[j + 1].kind = "frame")
                    => /\ calls[i + 1].at = SegEnd(j)
                       /\ calls[i + 1].res = RecvOk(fed[j + 1].msg)

\* a frame with the unknown tag 0x58 was refused, and the next call returned
\* the message of the frame after it
C16_Witness ==
    /\ Len(calls) = 2
    /\ Len(fed) >= 2
    /\ fed[1].kind = "raw"
    /\ fed[1].tag = START_BYTE
    /\ fed[2].kind = "frame"
    /\ fed[2].msg = Bytes(<<START_BYTE>>)
    /\ calls[1].res = RecvErr(RecvDecode(InvalidMessageType(START_BYTE)))
    /\ calls[1].end = 6
    /\ calls[2].res = RecvOk(Bytes(<<START_BYTE>>))

\* C17: every receive() on a finite link ends, in one of three outcomes: a
\* message, an io::Error or a DecodeError (never Resync, never a panic), and
\* it has consumed at least one byte.
C17_ThreeOutcomes ==
    \A i \in DOMAIN calls :
        /\ \/ calls[i].res.k = "Ok"
           \/ /\ calls[i].res.k = "Err"
              /\ calls[i].res.err.class \in {"Io", "Decode"}
        /\ calls[i].end > calls[i].at
        /\ calls[i].end <= SegEnd(calls[i].seen)

\* what a receive() returns on the complete frame of segment n read on its
\* own: the message sent, or what from_bytes makes of the tag and payload
Alone(n) ==
    IF fed[n].kind = "frame" THEN RecvOk(fed[n].msg)
    ELSE LET d == from_bytes(fed[n].tag, fed[n].payload)
         IN  IF d.k = "Ok" THEN RecvOk(d.msg) ELSE RecvErr(RecvDecode(d))

\* segment n is a complete frame that receive() reads without a panic
Complete(n) ==
    \/ fed[n].kind = "frame"
    \/ /\ fed[n].kind = "raw"
       /\ from_bytes(fed[n].tag, fed[n].payload).k # "Panic"

\* C18: a receive() that reads a START while it reads the length, the type
\* or the payload of a frame drops what it has read of that frame and reads
\* a new frame from the byte after that START: on frames cut short (after
\* the START, in the length, in the type, in the payload) followed by a
\* complete frame, it returns what the complete frame alone gives, and ends
\* at the end of that frame.
C18_ResyncRule ==
    \A i \in DOMAIN calls : \A j \in DOMAIN fed : \A n \in DOMAIN fed :
        (/\ StartsAt(calls[i], j)
         /\ j < n
         /\ n <= calls[i].seen
         /\ \A h \in j..(n - 1) : ProperCut(h)
         /\ Complete(n))
            => /\ calls[i].res = Alone(n)
               /\ calls[i].end = SegEnd(n)

\* a lone START, then a frame cut in its type, then a complete frame with
\* the unknown tag 7: one receive() resynced twice and returned the decode
\* error of the third
C18_Witness ==
    /\ Len(fed) = 3
    /\ fed[1].bytes = <<88>>
    /\ fed[2].bytes = <<88, 2, 0, 4>>
    /\ fed[3].kind = "raw"
    /\ fed[3].bytes = <<88, 2, 0, 7, 0>>
    /\ Len(calls) = 1
    /\ calls[1].at = 0
    /\ calls[1].seen = 3
    /\ calls[1].res = RecvErr(RecvDecode(InvalidMessageType(7)))
    /\ calls[1].end = 10

\* C19: the length field of the frame send writes, unstuffed and read as a
\* little-endian u16, is 2 + |payload| of the message sent, whatever the
\* size of the payload.
C19_LengthField ==
    Len(sent) = 1
        => /\ written[1] = 88
           /\ read_u16(written, 1).k = "Ok"
           /\ read_u16(written, 1).v = 2 + Len(to_bytes(sent[1]))

\* the bytes send hands to write_escaped_bytes for message m: the length
\* field as two bytes, the tag as two bytes, the payload
Logical(m) ==
    <<(2 + Len(to_bytes(m))) % 256, ((2 + Len(to_bytes(m))) \div 256) % 256,
      message_type(m) % 256, message_type(m) \div 256>> \o to_bytes(m)

SensitiveCount(bytes) ==
    Cardinality({n \in DOMAIN bytes : bytes[n] \in {88, 66}})

\* C20: after the leading START, send writes 0x42 and b XOR 0x69 for a byte
\* b that is 0x58 or 0x42 and b itself for any other byte; the masked byte
\* (0x31 or 0x2B) is not sensitive; the frame has 1 + 4 + |payload| bytes
\* plus one for each sensitive byte of length, tag and payload.
C20_Stuffing ==
    Len(sent) = 1
        => /\ Len(written)
                = 1 + 4 + Len(to_bytes(sent[1]))
                  + SensitiveCount(Logical(sent[1]))
           /\ \A n \in 2..Len(written) :
                /\ written[n] # 88
                /\ written[n] = 66
                    => /\ n < Len(written)
                       /\ written[n + 1] \in {49, 43}
           /\ sent[1].variant = "U8"
                => written
                    = <<88, 3, 0, 1, 0>>
                      \o CASE sent[1].num = 88 -> <<66, 49>>
                            [] sent[1].num = 66 -> <<66, 43>>
                            [] OTHER            -> <<sent[1].num>>

\* a payload of the three bytes 0x58, 0x00, 0x42 was sent in 12 bytes
C20_Witness ==
    /\ Len(sent) = 1
    /\ sent[1] = Bytes(<<START_BYTE, 0, ESCAPE_BYTE>>)
    /\ written = <<88, 5, 0, 0, 0, 66, 49, 0, 66, 43>>

\* segment n is a frame cut right after an ESCAPE byte
CutAfterEscape(n) ==
    /\ ProperCut(n)
    /\ fed[n].bytes[Len(fed[n].bytes)] = ESCAPE_BYTE

\* C21: when a START follows an ESCAPE inside a frame, receive() does not
\* unmask it (to 0x31): it drops the frame and reads a new frame from that
\* START; on 58 42 followed by frame(msg) it returns msg.
C21_EscapeThenStart ==
    \A i \in DOMAIN calls : \A j \in DOMAIN fed :
        (/\ StartsAt(calls[i], j)
         /\ CutAfterEscape(j)
         /\ j + 1 <= calls[i].seen
         /\ Complete(j + 1))
            => /\ calls[i].res = Alone(j + 1)
               /\ calls[i].end = SegEnd(j + 1)

\* receive() on 58 42 followed by the frame of U8(0x58) returned U8(0x58)
C21_Witness ==
    \E i \in DOMAIN calls :
        /\ Len(fed) >= 2
        /\ StartsAt(calls[i], 1)
        /\ fed[1].kind = "cut"
        /\ fed[1].bytes = <<88, 66>>
        /\ fed[2].kind = "frame"
        /\ fed[2].msg = U8(START_BYTE)
        /\ calls[i].res = RecvOk(U8(START_BYTE))

\* C22: a receive() that returns the message of a frame has consumed the
\* bytes of the link up to the last byte of that frame and none after it,
\* an escaped pair of the payload counting as one of its length - 2 bytes;
\* the frame that follows is returned by the next call.
C22_StopsAtFrameEnd ==
    \A i \in DOMAIN calls : \A j \in DOMAIN fed :
        (StartsAt(calls[i], j) /\ fed[j].kind = "frame")
            => /\ calls[i].res.k = "Ok"
               /\ calls[i].end = calls[i].at + Len(WireFormatOf(calls[i].res.msg))
               /\ calls[i].end = SegEnd(j)
               /\ (/\ i + 1 \in DOMAIN calls
                   /\ j + 1 <= calls[i + 1].seen
                   /\ fed[j + 1].kind = "frame")
                    => /\ calls[i + 1].at = SegEnd(j)
                       /\ calls[i + 1].res = RecvOk(fed[j + 1].msg)
                       /\ calls[i + 1].end = SegEnd(j + 1)

\* two frames back to back, the second with an escaped payload byte: the
\* first call ended at byte 6 and the second at byte 13, the end of the link
C22_Witness ==
    /\ Len(fed) = 2
    /\ fed[1].kind = "frame"
    /\ fed[1].msg = U8(87)
    /\ fed[2].kind = "frame"
    /\ fed[2].msg = U8(START_BYTE)
    /\ Len(calls) = 2
    /\ calls[1].seen = 2
    /\ calls[1].res = RecvOk(U8(87))
    /\ calls[1].end = 6
    /\ calls[2].res = RecvOk(U8(START_BYTE))
    /\ calls[2].end = 13

\* C23: after a receive() that failed with an io::Error in the middle of a
\* frame, the next receive() seeks a START: it skips the bytes of the
\* interrupted frame that arrive later and returns what the next complete
\* frame gives; nothing of the interrupted frame is delivered.
C23_NoStateSurvives ==
    \A i \in DOMAIN calls : \A j \in DOMAIN fed :
        (/\ StartsAt(calls[i], j)
         /\ ProperCut(j)
         /\ calls[i].seen = j)
            => /\ calls[i].res = RecvErr(RecvIo)
               /\ (/\ i + 1 \in DOMAIN calls
                   /\ j + 2 <= calls[i + 1].seen
                   /\ fed[j + 1].kind \in {"rest", "garbage"}
                   /\ Complete(j + 2))
                    => /\ calls[i + 1].at = SegEnd(j)
                       /\ calls[i + 1].res = Alone(j + 2)
                       /\ calls[i + 1].end = SegEnd(j + 2)

\* the link stopped after the START of the frame of NoOp and the call
\* failed; then the other four bytes of that frame and the frame of
\* Bytes[0x58] arrived, and the next call returned Bytes[0x58]
C23_Witness ==
    /\ Len(fed) = 3
    /\ fed[1].kind = "cut"
    /\ fed[1].bytes = <<88>>
    /\ fed[2].kind = "rest"
    /\ fed[2].bytes = <<2, 0, 4, 0>>
    /\ fed[3].kind = "frame"
    /\ fed[3].msg = Bytes(<<START_BYTE>>)
    /\ Len(calls) = 2
    /\ calls[1].seen = 1
    /\ calls[1].res = RecvErr(RecvIo)
    /\ calls[2].at = 1
    /\ calls[2].res = RecvOk(Bytes(<<START_BYTE>>))

\* C24: a frame with an unknown tag or a payload that does not decode, cut
\* short by the START of the next frame before its last payload byte, gives
\* no DecodeError: receive() returns what the frame at that START gives.
C24_DecodeAfterCompleteFrame ==
    \A i \in DOMAIN calls : \A j \in DOMAIN fed :
        (/\ StartsAt(calls[i], j)
         /\ fed[j].kind = "cutraw"
         /\ j + 1 <= calls[i].seen
         /\ Complete(j + 1))
            => /\ calls[i].res = Alone(j + 1)
               /\ calls[i].end = SegEnd(j + 1)

\* a frame with the unknown tag 7, cut after the first byte of its payload,
\* was followed by the frame of NoOp, and receive() returned NoOp
C24_Witness ==
    \E i \in DOMAIN calls :
        /\ Len(fed) >= 2
        /\ StartsAt(calls[i], 1)
        /\ fed[1].kind = "cutraw"
        /\ fed[1].bytes = <<88, 4, 0, 7, 0, 66>>
        /\ fed[2].kind = "frame"
        /\ fed[2].msg = NoOp
        /\ calls[i].res = RecvOk(NoOp)
        /\ calls[i].end = 11

\* C25: send returns Ok only when it has written every byte of the frame and
\* flushed; when a write or the flush fails, send returns the error and does
\* nothing more, so that the bytes written are a prefix of the frame: those
\* written before the failure.
C25_SendAllOrError ==
    codec.stage = "send"
        => /\ codec.res = "Ok"
                <=> (codec.fail_at = 0
                     \/ codec.fail_at > Len(WireFormatOf(sent[1])) + 1)
           /\ codec.res = "Ok"
                => /\ written = WireFormatOf(sent[1])
                   /\ codec.ops = Len(written) + 1
           /\ codec.res = "Err"
                => /\ written
                        = SubSeq(WireFormatOf(sent[1]), 1, codec.fail_at - 1)
                   /\ codec.ops = codec.fail_at

\* the write of the ESCAPE byte of the payload failed: send returned the
\* error with the five bytes before it written
C25_Witness ==
    /\ codec.stage = "send"
    /\ sent = <<U8(START_BYTE)>>
    /\ codec.fail_at = 6
    /\ codec.res = "Err"
    /\ written = <<88, 3, 0, 1, 0>>

\* C26: from_bytes returns a message for tag 1 or 6 only on a payload of one
\* byte, for tag 5 only on a payload of two bytes and for tag 4 only on the
\* empty payload.
C26_FixedShapes ==
    (/\ codec.stage = "raw"
     /\ \/ codec.tag \in {1, 6} /\ Len(codec.bytes) # 1
        \/ codec.tag = 5 /\ Len(codec.bytes) # 2
        \/ codec.tag = 4 /\ Len(codec.bytes) # 0)
        => codec.res.k # "Ok"

\* the variant of each tag, tag 0 first
TagVariant == <<"Bytes", "U8", "MyString", "Multi", "NoOp", "U16", "Status">>

\* C27: message_type maps Bytes, U8, MyString, Multi, NoOp, U16, Status to
\* 0, 1, 2, 3, 4, 5, 6, and a message m that from_bytes(t, payload) returns
\* has m.message_type() = t.
C27_TagAssignment ==
    /\ (codec.stage = "raw" /\ codec.res.k = "Ok")
            => /\ codec.tag \in 0..6
               /\ codec.res.msg.variant = TagVariant[codec.tag + 1]
               /\ message_type(codec.res.msg) = codec.tag
    /\ codec.stage = "status" => codec.tag = 6

\* tag 5 with the payload C3 02 decoded to U16(0x02C3), whose message_type
\* is 5
C27_Witness ==
    /\ codec.stage = "raw"
    /\ codec.tag = 5
    /\ codec.bytes = <<195, 2>>
    /\ codec.res = DecOk(U16(707))
    /\ message_type(codec.res.msg) = 5

\* C28: the payload of Multi{num, text} is the byte num followed by the
\* UTF-8 bytes of text and nothing else: for the empty text the one byte
\* num, in a frame of length 3; and from_bytes on tag 3 takes the first byte
\* as num and the rest as text, the empty text for a payload of one byte.
C28_MultiLayout ==
    (codec.stage \in {"encoded", "decoded"} /\ codec.msg.variant = "Multi")
        => /\ codec.tag = 3
           /\ codec.bytes # <<>>
           /\ codec.bytes[1] = codec.msg.num
           /\ Tail(codec.bytes) = AsBytes(codec.msg.string)
           /\ codec.msg.string = <<>>
                => /\ codec.bytes = <<codec.msg.num>>
                   /\ SubSeq(send(codec.msg), 1, 5) = <<88, 3, 0, 3, 0>>
           /\ codec.stage = "decoded"
                => /\ codec.res.k = "Ok"
                   /\ codec.res.msg.variant = "Multi"
                   /\ codec.res.msg.num = codec.bytes[1]
                   /\ codec.res.msg.string = codec.msg.string

\* Multi{255, ""} was encoded as the one byte FF and decoded from it
C28_Witness ==
    /\ codec.stage = "decoded"
    /\ codec.msg = Multi(255, <<>>)
    /\ codec.bytes = <<255>>
    /\ codec.res = DecOk(Multi(255, <<>>))

\* a step of send: it appends the frame to the write half and leaves the
\* read half and what was read from it alone
SendStep ==
    sent' # sent
        => /\ written' = written \o WireFormatOf(sent'[Len(sent')])
           /\ wire' = wire
           /\ pos' = pos
           /\ calls' = calls

\* a step of receive: it consumes bytes of the read half, writes nothing,
\* and its result is that of the bytes of the read half from where it began
ReceiveStep ==
    calls' # calls
        => /\ written' = written
           /\ sent' = sent
           /\ wire' = wire
           /\ pos' > pos
           /\ pos' <= Len(wire)
           /\ calls'[Len(calls')].res = Outcome(receive(wire, pos))

RunBefore(r, n) ==
    CHOOSE k \in 0..(n - 1) :
        /\ \A h \in (n - k)..(n - 1) : r[h] = 66
        /\ (n - k - 1 = 0 \/ r[n - k - 1] # 66)

\* position n of r is the second byte of an escaped pair
Escaped(r, n) == RunBefore(r, n) % 2 = 1

\* position n of r is the ESCAPE byte that opens an escaped pair
Lead(r, n) == r[n] = 66 /\ ~Escaped(r, n)

\* the logical bytes of the START-free raw bytes r, by the escaping rule of
\* the protocol description: an escaped pair stands for its second byte
\* XOR 0x69, any other byte for itself
Unstuff(r) ==
    LET lead == {n \in DOMAIN r : Lead(r, n)}
        idx  == [n \in DOMAIN r |-> n - Cardinality({h \in lead : h <= n})]
    IN  [k \in 1..(Len(r) - Cardinality(lead)) |->
            LET n == CHOOSE n \in (DOMAIN r) \ lead : idx[n] = k
            IN  IF Escaped(r, n) THEN XorU8(r[n], 105) ELSE r[n]]

\* the position on the link of the last START that call c consumed
LastStart(c) ==
    CHOOSE n \in (c.at + 1)..c.end :
        /\ wire[n] = 88
        /\ \A h \in (n + 1)..c.end : wire[h] # 88

\* C30: the message a receive() returns is from_bytes(tag, payload) of the
\* logical bytes length, tag, payload that the raw bytes after the last
\* START the call consumed unstuff to, with |payload| = length - 2; the call
\* consumed just these bytes after that START, and no byte before that START
\* is in the message.
C30_NoFabrication ==
    \A i \in DOMAIN calls :
        calls[i].res.k = "Ok"
            => /\ \E n \in (calls[i].at + 1)..calls[i].end : wire[n] = 88
               /\ LET raw == SubSeq(wire, LastStart(calls[i]) + 1,
                                    calls[i].end)
                      logical == Unstuff(raw)
                  IN  /\ ~Lead(raw, Len(raw))
                      /\ Len(logical) >= 4
                      /\ Len(logical) - 4
                            = FromLeBytes(logical[1], logical[2]) - 2
                      /\ from_bytes(FromLeBytes(logical[3], logical[4]),
                                     SubSeq(logical, 5, Len(logical)))
                            = DecOk(calls[i].res.msg)

\* a call consumed a frame cut after an ESCAPE of its payload and then the
\* frame of U8(0x58): the message is that of the seven bytes from the
\* second START on
C30_Witness ==
    \E i \in DOMAIN calls :
        /\ calls[i].at = 0
        /\ calls[i].end = 13
        /\ SubSeq(wire, 1, 13)
            = <<88, 4, 0, 5, 0, 66, 88, 3, 0, 1, 0, 66, 49>>
        /\ LastStart(calls[i]) = 7
        /\ calls[i].res = RecvOk(U8(START_BYTE))

\* C31: a receive() on k >= 1 frames cut short, each after one byte or more
\* and before its last, followed by frame(msg), returns msg: it has consumed
\* k + 1 START bytes, one per frame it dropped and one for the frame of msg.
C31_RepeatedResync ==
    \A i \in DOMAIN calls : \A j \in DOMAIN fed : \A n \in DOMAIN fed :
        (/\ StartsAt(calls[i], j)
         /\ j < n
         /\ n <= calls[i].seen
         /\ \A h \in j..(n - 1) : ProperCut(h)
         /\ fed[n].kind = "frame")
            => /\ calls[i].res = RecvOk(fed[n].msg)
               /\ calls[i].end = SegEnd(n)
               /\ StartCount(SubSeq(wire, calls[i].at + 1, calls[i].end))
                    = n - j + 1

\* four frames cut short, the first after its START and the last after an
\* ESCAPE, then the frame of U8(0x58): one receive() returned U8(0x58)
C31_Witness ==
    /\ Len(fed) = 5
    /\ fed[1].bytes = <<88>>
    /\ fed[4].bytes = <<88, 4, 0, 5, 0, 66>>
    /\ fed[5].kind = "frame"
    /\ fed[5].msg = U8(START_BYTE)
    /\ Len(calls) = 1
    /\ calls[1].at = 0
    /\ calls[1].seen = 5
    /\ calls[1].res = RecvOk(U8(START_BYTE))
    /\ calls[1].end = Len(wire)

\* C32: inside a frame, a raw byte r other than 0x58 and 0x42 gives the
\* logical byte r from one raw byte; 0x42 followed by a raw byte r2 other
\* than 0x58 gives the one logical byte r2 XOR 0x69 from two raw bytes, also
\* when r2 is 0x42 and when r2 XOR 0x69 is not a sensitive byte.
C32_Unstuffing ==
    codec.stage = "unstuffed"
        => /\ codec.raw[1] \notin {88, 66}
                => codec.res = [k |-> "Ok", v |-> codec.raw[1], p |-> 1]
           /\ (codec.raw[1] = 66 /\ codec.raw[2] # 88)
                => /\ codec.res.k = "Ok"
                   /\ codec.res.p = 2
                   /\ codec.res.v = XorU8(codec.raw[2], 105)
                   /\ codec.res.v
                        = CASE codec.raw[2] = 0   -> 105
                            [] codec.raw[2] = 43  -> 66
                            [] codec.raw[2] = 49  -> 88
                            [] codec.raw[2] = 66  -> 43
                            [] codec.raw[2] = 105 -> 0
                            [] codec.raw[2] = 255 -> 150

\* the raw bytes 42 42 gave the one logical byte 0x2B
C32_Witness ==
    /\ codec.stage = "unstuffed"
    /\ codec.raw = <<ESCAPE_BYTE, ESCAPE_BYTE>>
    /\ codec.res = [k |-> "Ok", v |-> 43, p |-> 2]

====
